---- MODULE Spec2Model ----
(***************************************************************************)
(* Model of tools/main.py: the Analyzer (an ast.NodeVisitor) walks a       *)
(* syntax tree depth first, keeps a Stack of scope contexts, counts call   *)
(* expressions per function and prints one result per function and class.  *)
(*                                                                         *)
(* The tree is a sequence of nodes numbered in pre-order: parent[i] is the *)
(* parent of node i (0 for the root) and kind[i] its node class.  Node 1   *)
(* is the ast.Module returned by ast.parse.  A node's name is its number.  *)
(*                                                                         *)
(* The recursion of NodeVisitor is the sequence frames: one frame per      *)
(* active visit_* call, holding the node and the index of the next child   *)
(* generic_visit will hand to visit().  An uncaught exception unwinds      *)
(* every frame and ends the program.                                       *)
(*                                                                         *)
(* Scores are exact rationals [num, den]: 1 - n/10 is (10 - n)/10.  The    *)
(* binary rounding of the float division is not represented.               *)
(***************************************************************************)
EXTENDS Integers, Sequences, FiniteSets, TLC

\* ------------------------------------------------------------------ bounds
\* Largest tree of the exhaustive family (every shape, every kind).
MaxNodes == 5
\* Largest number of call expressions in the wide family (a function
\* holding k calls), chosen above MAX_CALLS so that the clamp acts.
MaxWideCalls == 12
\* Largest tree of the exhaustive family in the termination check.
MaxLiveNodes == 4
\* Deepest Stack built when the Stack is driven on its own.
MaxStackDepth == 4

\* --------------------------------------------------------------- constants
MAX_CALLS == 10

Kinds == {"ClassDef", "FunctionDef", "Call", "Other"}

VARIABLES
    parent,    \* the tree: parent[i] of node i, 0 for the root
    kind,      \* the tree: node class of node i
    stack,     \* Analyzer.stack: [inner |-> list, depth |-> index]
    frames,    \* active visit calls, outermost first: [node, i]
    results,   \* what has been printed, one record per printed block
    visits,    \* visits[i]: how many times visit() was called on node i
    status,    \* "ready", "running", "done", "error"
    err        \* the exception that ended the program, "" if none

vars == <<parent, kind, stack, frames, results, visits, status, err>>

\* ---------------------------------------------------------------- the tree
Nodes == 1..Len(parent)

RECURSIVE AncSelf(_, _)
\* node i and its ancestors in the parent sequence p
AncSelf(p, i) == IF i = 0 THEN {} ELSE {i} \cup AncSelf(p, p[i])

\* p numbers its nodes in pre-order: each node hangs under the previous
\* node or one of the previous node's ancestors.
IsPreorder(p) ==
    /\ p[1] = 0
    /\ \A i \in 2..Len(p) : p[i] \in AncSelf(p, i - 1)

ParentSeqs(n) ==
    {p \in [1..n -> 0..(n - 1)] : IsPreorder(p)}

KindSeqs(n) ==
    {k \in [1..n -> Kinds] : k[1] = "Other"}

\* Module > ClassDef > FunctionDef > k sibling calls
WideFlatParent(k) == [i \in 1..(k + 3) |-> IF i <= 3 THEN i - 1 ELSE 3]
WideFlatKind(k) ==
    [i \in 1..(k + 3) |->
        IF i = 1 THEN "Other"
        ELSE IF i = 2 THEN "ClassDef"
        ELSE IF i = 3 THEN "FunctionDef" ELSE "Call"]

\* Module > FunctionDef > k calls, each the argument of the one before
WideDeepParent(k) == [i \in 1..(k + 2) |-> i - 1]
WideDeepKind(k) ==
    [i \in 1..(k + 2) |->
        IF i = 1 THEN "Other" ELSE IF i = 2 THEN "FunctionDef" ELSE "Call"]

\* the elements of a set of numbers in increasing order
SetToSeq(S) ==
    [i \in 1..Cardinality(S) |->
        CHOOSE x \in S : Cardinality({y \in S : y < x}) = i - 1]

\* the elements of a set of numbers in decreasing order
SetToSeqDown(S) ==
    [i \in 1..Cardinality(S) |->
        CHOOSE x \in S : Cardinality({y \in S : y > x}) = i - 1]

\* the children of node n, last one first
Children_reversed(n) == SetToSeqDown({j \in Nodes : parent[j] = n})

\* the children of node n in source order (ast.iter_fields order)
Children(n) == SetToSeq({j \in Nodes : parent[j] = n})

\* ------------------------------------------------------------------ scores
One == [num |-> 1, den |-> 1]

Mul(x, y) == [num |-> x.num * y.num, den |-> x.den * y.den]

ScoreEq(x, y) == x.num * y.den = y.num * x.den
ScoreLe(x, y) == x.num * y.den <= y.num * x.den

Min2(a, b) == IF a <= b THEN a ELSE b
Max2(a, b) == IF a >= b THEN a ELSE b

\* func_entropy with the lower clamp forgotten
func_entropy_noclamp(n_calls, max_calls) ==
    [num |-> Min2(max_calls - n_calls, max_calls), den |-> max_calls]

\* func_entropy dividing by max_calls + 1
func_entropy_offbyone(n_calls, max_calls) ==
    [num |-> Max2(Min2(max_calls + 1 - n_calls, max_calls + 1), 0),
     den |-> max_calls + 1]

\* max(min(1 - (n_calls / max_calls), 1), 0), over the denominator max_calls
func_entropy(n_calls, max_calls) ==
    [num |-> Max2(Min2(max_calls - n_calls, max_calls), 0), den |-> max_calls]

RECURSIVE reduce_add(_)
\* reduce with + in place of *
reduce_add(s) ==
    IF Len(s) = 1 THEN s[1]
    ELSE LET a == reduce_add(SubSeq(s, 1, Len(s) - 1))
             b == s[Len(s)]
         IN [num |-> a.num * b.den + b.num * a.den, den |-> a.den * b.den]

RECURSIVE reduce_mul(_)
\* reduce(lambda x, y: x * y, s) for a non-empty s
reduce_mul(s) ==
    IF Len(s) = 1 THEN s[1]
    ELSE Mul(reduce_mul(SubSeq(s, 1, Len(s) - 1)), s[Len(s)])

\* --------------------------------------------------------------- the Stack
EmptyStack == [inner |-> <<>>, depth |-> -1]

\* list[i] of Python: a negative index counts from the end
PyIndex(list, i) == IF i < 0 THEN Len(list) + i + 1 ELSE i + 1
PyInRange(list, i) == PyIndex(list, i) \in 1..Len(list)

\* del list[0] whatever the index
RemoveAt_first(list, k) == SubSeq(list, 2, Len(list))

RemoveAt(list, k) ==
    SubSeq(list, 1, k - 1) \o SubSeq(list, k + 1, Len(list))

\* push that forgets to move the depth index
StackPush_nodepth(s, e) == [inner |-> Append(s.inner, e), depth |-> s.depth]

StackPush(s, e) == [inner |-> Append(s.inner, e), depth |-> s.depth + 1]

\* the element Stack.pop returns and Stack.peek reads
StackPeek(s) == s.inner[PyIndex(s.inner, s.depth)]

\* pop that forgets the del and only moves the depth index
StackPop_keep(s) == [inner |-> s.inner, depth |-> s.depth - 1]

StackPop(s) ==
    [inner |-> RemoveAt(s.inner, PyIndex(s.inner, s.depth)),
     depth |-> s.depth - 1]

StackLen(s) == Len(s.inner)

\* self.stack.peek[key] = value
StackSetTop(s, ctx) ==
    [s EXCEPT !.inner[PyIndex(s.inner, s.depth)] = ctx]

ClassContext == [type |-> "class", functions |-> <<>>]
FuncContext == [type |-> "func", calls |-> 0]

\* ------------------------------------------------------------------- state
Init ==
    /\ \/ \E n \in 1..MaxNodes :
            \E p \in ParentSeqs(n), k \in KindSeqs(n) :
                parent = p /\ kind = k
       \/ \E c \in 0..MaxWideCalls :
            \/ parent = WideFlatParent(c) /\ kind = WideFlatKind(c)
            \/ parent = WideDeepParent(c) /\ kind = WideDeepKind(c)
    /\ stack = EmptyStack
    /\ frames = <<>>
    /\ results = <<>>
    /\ visits = [i \in 1..Len(parent) |-> 0]
    /\ status = "ready"
    /\ err = ""

\* --------------------------------------------------------------- traversal
Top == frames[Len(frames)]

\* generic_visit of the top frame still has a child to visit
HasNext ==
    /\ status = "running"
    /\ frames # <<>>
    /\ Top.i <= Len(Children(Top.node))

NextChild == Children(Top.node)[Top.i]

\* generic_visit of the top frame has run out of children
AtEnd ==
    /\ status = "running"
    /\ frames # <<>>
    /\ Top.i > Len(Children(Top.node))

\* entering visit(c) and stepping over the child after it
Enter_skip(c) ==
    Append([frames EXCEPT ![Len(frames)].i = @ + 2], [node |-> c, i |-> 1])

\* the frames once visit(c) has been entered from the top frame
Enter(c) ==
    Append([frames EXCEPT ![Len(frames)].i = @ + 1], [node |-> c, i |-> 1])

\* the frames once the top visit call has returned
Leave == SubSeq(frames, 1, Len(frames) - 1)

\* the outermost visit never reported as returned
StatusAfter_running(fr) == "running"

StatusAfter(fr) == IF fr = <<>> THEN "done" ELSE "running"

Raise(e) ==
    /\ frames' = <<>>
    /\ status' = "error"
    /\ err' = e

\* main: analyzer.visit(tree) on the Module node, which has no visit_Module
main ==
    /\ status = "ready"
    /\ frames' = <<[node |-> 1, i |-> 1]>>
    /\ visits' = [visits EXCEPT ![1] = @ + 1]
    /\ status' = "running"
    /\ UNCHANGED <<parent, kind, stack, results, err>>

\* visit_ClassDef up to the recursion: push the class context
visit_ClassDef_push ==
    /\ HasNext
    /\ kind[NextChild] = "ClassDef"
    /\ stack' = StackPush(stack, ClassContext)
    /\ frames' = Enter(NextChild)
    /\ visits' = [visits EXCEPT ![NextChild] = @ + 1]
    /\ UNCHANGED <<parent, kind, results, status, err>>

\* the score goes to the nearest class context anywhere on s
Attribute_nearest_class(s, entropy) ==
    LET cls == {k \in 1..Len(s.inner) : s.inner[k].type = "class"}
    IN IF cls = {} THEN s
       ELSE LET k == CHOOSE x \in cls : \A y \in cls : y <= x
            IN [s EXCEPT !.inner[k].functions = Append(@, entropy)]

\* "if len(self.stack) and self.stack.peek["type"] == "class": append":
\* the class context on top of s takes the score, any other top does not
Attribute(s, entropy) ==
    IF StackLen(s) # 0 /\ StackPeek(s).type = "class"
    THEN StackSetTop(s, [StackPeek(s) EXCEPT
                            !.functions = Append(@, entropy)])
    ELSE s

\* visit_ClassDef handing its own score to the class around it
visit_ClassDef_after_attr(s) ==
    IF StackPeek(s).functions = <<>> THEN StackPop(s)
    ELSE Attribute(StackPop(s), reduce_mul(StackPeek(s).functions))

\* visit_ClassDef reading its context and leaving it on the stack
visit_ClassDef_after_nopop(s) == s

\* the stack visit_ClassDef leaves behind: the pop and nothing else
visit_ClassDef_after(s) == StackPop(s)

\* visit_ClassDef after the recursion: pop, reduce, print
visit_ClassDef_pop ==
    /\ AtEnd
    /\ kind[Top.node] = "ClassDef"
    /\ IF ~PyInRange(stack.inner, stack.depth)
       THEN /\ Raise("IndexError")
            /\ UNCHANGED <<stack, results>>
       ELSE LET infos == StackPeek(stack)
            IN /\ stack' = visit_ClassDef_after(stack)
               /\ IF "functions" \notin DOMAIN infos
                  THEN /\ Raise("KeyError")
                       /\ UNCHANGED results
                  ELSE IF infos.functions = <<>>
                  THEN /\ Raise("TypeError")
                       /\ UNCHANGED results
                  ELSE /\ results' = Append(results,
                              [kind |-> "class", name |-> Top.node,
                               count |-> Len(infos.functions),
                               score |-> reduce_mul(infos.functions)])
                       /\ frames' = Leave
                       /\ status' = StatusAfter(Leave)
                       /\ UNCHANGED err
    /\ UNCHANGED <<parent, kind, visits>>

\* visit_FunctionDef up to the recursion: push the function context
visit_FunctionDef_push ==
    /\ HasNext
    /\ kind[NextChild] = "FunctionDef"
    /\ stack' = StackPush(stack, FuncContext)
    /\ frames' = Enter(NextChild)
    /\ visits' = [visits EXCEPT ![NextChild] = @ + 1]
    /\ UNCHANGED <<parent, kind, results, status, err>>

\* visit_FunctionDef after the recursion: pop, score, print, attribute
visit_FunctionDef_pop ==
    /\ AtEnd
    /\ kind[Top.node] = "FunctionDef"
    /\ IF ~PyInRange(stack.inner, stack.depth)
       THEN /\ Raise("IndexError")
            /\ UNCHANGED <<stack, results>>
       ELSE LET infos == StackPeek(stack)
                entropy == func_entropy(infos.calls, MAX_CALLS)
            IN IF "calls" \notin DOMAIN infos
               THEN /\ stack' = StackPop(stack)
                    /\ Raise("KeyError")
                    /\ UNCHANGED results
               ELSE /\ results' = Append(results,
                           [kind |-> "function", name |-> Top.node,
                            count |-> infos.calls, score |-> entropy])
                    /\ stack' = Attribute(StackPop(stack), entropy)
                    /\ frames' = Leave
                    /\ status' = StatusAfter(Leave)
                    /\ UNCHANGED err
    /\ UNCHANGED <<parent, kind, visits>>

\* the counter assigned 1 where it should be incremented
CountCall_assign(s) ==
    StackSetTop(s, [StackPeek(s) EXCEPT !.calls = 1])

\* self.stack.peek["calls"] += 1 on a context that has the key
CountCall(s) ==
    StackSetTop(s, [StackPeek(s) EXCEPT !.calls = @ + 1])

\* the counting statement without its "if self.stack" test
visit_Call_count_nolen(s) ==
    IF StackLen(s) = 0 THEN [raised |-> "IndexError", stack |-> s]
    ELSE IF "calls" \notin DOMAIN StackPeek(s)
    THEN [raised |-> "KeyError", stack |-> s]
    ELSE [raised |-> "", stack |-> CountCall(s)]

\* the counting statement adding to every open function, not the top one
visit_Call_count_all(s) ==
    IF StackLen(s) = 0 THEN [raised |-> "", stack |-> s]
    ELSE IF "calls" \notin DOMAIN StackPeek(s)
    THEN [raised |-> "KeyError", stack |-> s]
    ELSE [raised |-> "",
          stack |-> [s EXCEPT !.inner =
              [k \in 1..Len(s.inner) |->
                  IF s.inner[k].type = "func"
                  THEN [s.inner[k] EXCEPT !.calls = @ + 1]
                  ELSE s.inner[k]]]]

\* "if self.stack: self.stack.peek["calls"] += 1": the exception it raises
\* ("" for none) and the stack it leaves
visit_Call_count(s) ==
    IF StackLen(s) = 0 THEN [raised |-> "", stack |-> s]
    ELSE IF "calls" \notin DOMAIN StackPeek(s)
    THEN [raised |-> "KeyError", stack |-> s]
    ELSE [raised |-> "", stack |-> CountCall(s)]

\* visit_Call: count on the top context if there is one, then recurse
visit_Call ==
    /\ HasNext
    /\ kind[NextChild] = "Call"
    /\ visits' = [visits EXCEPT ![NextChild] = @ + 1]
    /\ LET r == visit_Call_count(stack)
       IN /\ stack' = r.stack
          /\ IF r.raised # ""
             THEN Raise(r.raised)
             ELSE /\ frames' = Enter(NextChild)
                  /\ UNCHANGED <<status, err>>
    /\ UNCHANGED <<parent, kind, results>>

\* NodeVisitor.visit of a node with no visit_* method: generic_visit
generic_visit ==
    /\ HasNext
    /\ kind[NextChild] = "Other"
    /\ frames' = Enter(NextChild)
    /\ visits' = [visits EXCEPT ![NextChild] = @ + 1]
    /\ UNCHANGED <<parent, kind, stack, results, status, err>>

\* generic_visit of a Call or of an unhandled node returns to its caller
generic_visit_return ==
    /\ AtEnd
    /\ kind[Top.node] \in {"Call", "Other"}
    /\ frames' = Leave
    /\ status' = StatusAfter(Leave)
    /\ UNCHANGED <<parent, kind, stack, results, visits, err>>

\* ------------------------------------------------- the tree, seen from above
ScopeKinds == {"ClassDef", "FunctionDef"}

ScopeNodes == {n \in Nodes : kind[n] \in ScopeKinds}

\* the proper ancestors of node n
Anc(n) == AncSelf(parent, n) \ {n}

\* the nearest proper ancestor of n whose kind is in K, 0 if there is none
Nearest(n, K) ==
    LET A == {a \in Anc(n) : kind[a] \in K}
    IN IF A = {} THEN 0 ELSE CHOOSE a \in A : \A b \in A : b <= a

NearestScope(n) == Nearest(n, ScopeKinds)
NearestFunc(n) == Nearest(n, {"FunctionDef"})
NearestClass(n) == Nearest(n, {"ClassDef"})

\* the nodes whose visit call is active, outermost first
Open == [k \in 1..Len(frames) |-> frames[k].node]

IsScope(n) == kind[n] \in ScopeKinds

\* the open class and function definitions, outermost first
OpenScopes == SelectSeq(Open, IsScope)

\* the positions of results that report node n
Reports(n) == {i \in 1..Len(results) : results[i].name = n}

\* the next step closes a class definition
ClosingClass == AtEnd /\ kind[Top.node] = "ClassDef"

\* the next step visits a call expression
VisitingCall == HasNext /\ kind[NextChild] = "Call"

\* ------------------------------------------------------------------ claims

\* C1: closing a class whose function-score sequence is empty raises no
\* error and prints a class result with function count 0 and score 1, and
\* the traversal goes on.
C1_EmptyClassScoresOne ==
    [][(ClosingClass /\ StackPeek(stack).functions = <<>>)
        => /\ status' # "error"
           /\ err' = ""
           /\ results' = Append(results,
                  [kind |-> "class", name |-> Top.node,
                   count |-> 0, score |-> One])
           /\ frames' = Leave]_vars

\* C2: a call expression visited while the top context is a class does not
\* raise, leaves every context on the stack as it was, and its children are
\* visited next.
C2_CallInClassBodyIgnored ==
    [][(VisitingCall /\ StackLen(stack) # 0
            /\ StackPeek(stack).type = "class")
        => /\ status' = "running"
           /\ err' = ""
           /\ stack' = stack
           /\ frames' = Enter(NextChild)]_vars

\* C3: a call expression visited while the stack is empty raises nothing,
\* leaves the stack empty and unchanged, and generic_visit goes on into the
\* call's children; when the traversal is done every child of such a call
\* has been visited.
C3_ModuleLevelCall ==
    /\ [][(VisitingCall /\ StackLen(stack) = 0)
            => /\ status' = "running"
               /\ err' = ""
               /\ stack' = stack
               /\ StackLen(stack') = 0
               /\ frames' = Enter(NextChild)]_vars
    /\ [](status = "done" =>
            \A c \in Nodes : (kind[c] = "Call" /\ NearestScope(c) = 0) =>
                \A d \in Nodes : parent[d] = c => visits[d] = 1)

\* a module-level call with a child has been visited, the child too
C3_Witness ==
    /\ status = "done"
    /\ stack = EmptyStack
    /\ \E c, d \in Nodes :
        /\ kind[c] = "Call" /\ NearestScope(c) = 0
        /\ parent[d] = c /\ kind[d] = "Call"
        /\ visits[c] = 1 /\ visits[d] = 1


\* the call expressions whose nearest enclosing function definition is f
CallsOf(f) == {c \in Nodes : kind[c] = "Call" /\ NearestFunc(c) = f}

\* C4: when the traversal is done, the call count printed for a function is
\* the number of call expressions whose nearest enclosing function
\* definition is that function: calls of an inner function are not counted
\* for the outer one, and a call in another call's arguments counts once.
C4_CallsCountedForNearestFunction ==
    status = "done" =>
        \A i \in 1..Len(results) :
            results[i].kind = "function" =>
                results[i].count = Cardinality(CallsOf(results[i].name))

\* finished: an inner function and the function around it both hold calls
C4_Witness ==
    /\ status = "done"
    /\ \E i, j \in 1..Len(results) :
        /\ results[i].kind = "function" /\ results[j].kind = "function"
        /\ NearestFunc(results[i].name) = results[j].name
        /\ results[i].count >= 1 /\ results[j].count >= 1

\* C5: results are printed in post-order: before the result of a scope
\* come the results of every scope below it and of every scope that lies
\* wholly before it in the source (earlier siblings and their descendants).
C5_PostOrder ==
    \A j \in 1..Len(results) :
        \A b \in ScopeNodes :
            (\/ results[j].name \in Anc(b)
             \/ (b < results[j].name /\ b \notin Anc(results[j].name)))
            => \E i \in 1..(j - 1) : results[i].name = b

\* class C holding f holding g, and a later sibling of C: g, f, C, then it
C5_Witness ==
    /\ status = "done"
    /\ Len(parent) = 5
    /\ parent = <<0, 1, 2, 3, 1>>
    /\ kind[2] = "ClassDef" /\ kind[3] = "FunctionDef"
    /\ kind[4] = "FunctionDef" /\ kind[5] = "FunctionDef"
    /\ [i \in 1..Len(results) |-> results[i].name] = <<4, 3, 2, 5>>

\* C6: the score printed for a function with n calls is 1 - n/10 cut to
\* [0, 1]: 1 for n = 0, 1/2 for n = 5, exactly 0 from n = 10 on, never
\* negative, and never above the score of a smaller count.
C6_FunctionScore ==
    \A i \in 1..Len(results) :
        results[i].kind = "function" =>
            LET n == results[i].count
                sc == results[i].score
            IN /\ n >= 0
               /\ sc.den > 0
               /\ 0 <= sc.num /\ sc.num <= sc.den
               /\ (n <= 10 => sc.num * 10 = (10 - n) * sc.den)
               /\ (n >= 10 => sc.num = 0)
               /\ (n = 0 => sc.num = sc.den)
               /\ (n = 5 => 2 * sc.num = sc.den)
               /\ \A k \in 1..Len(results) :
                    (results[k].kind = "function" /\ results[k].count <= n)
                        => ScoreLe(sc, results[k].score)

\* a function with more than MAX_CALLS calls was given the score 0
C6_Witness ==
    \E i \in 1..Len(results) :
        /\ results[i].kind = "function"
        /\ results[i].count > MAX_CALLS
        /\ results[i].score.num = 0

\* the function definitions whose nearest enclosing scope is class c, in
\* source order (none lies inside another, so this is finishing order too)
DirectFuncs(c) ==
    SetToSeq({f \in Nodes : kind[f] = "FunctionDef" /\ NearestScope(f) = c})

\* the score printed for node n
ScoreOf(n) == results[CHOOSE i \in Reports(n) : TRUE].score

RECURSIVE Product(_)
Product(s) == IF s = <<>> THEN One ELSE Mul(Product(Tail(s)), Head(s))

\* C7: when a class closes, its function-score sequence holds the printed
\* scores of the functions defined directly in it, in finishing order; the
\* printed class score is their product and the printed count their number.
C7_ClassScoreIsProduct ==
    /\ ClosingClass =>
        LET fs == DirectFuncs(Top.node)
        IN /\ \A k \in 1..Len(fs) : Reports(fs[k]) # {}
           /\ StackPeek(stack).functions =
                [k \in 1..Len(fs) |-> ScoreOf(fs[k])]
    /\ \A j \in 1..Len(results) :
        results[j].kind = "class" =>
            LET fs == DirectFuncs(results[j].name)
            IN /\ results[j].count = Len(fs)
               /\ \A k \in 1..Len(fs) :
                    \E i \in 1..(j - 1) : results[i].name = fs[k]
               /\ ScoreEq(results[j].score,
                    Product([k \in 1..Len(fs) |-> ScoreOf(fs[k])]))

\* a class with two functions, one of them with a call, has been printed
C7_Witness ==
    \E j \in 1..Len(results) :
        /\ results[j].kind = "class"
        /\ results[j].count = 2
        /\ results[j].score = [num |-> 90, den |-> 100]


\* the context under the top one is a class context
ExposedIsClass ==
    /\ StackLen(stack) >= 2
    /\ stack.inner[StackLen(stack) - 1].type = "class"

\* C8 as stated: when a class closes directly under a class context, its
\* score is appended to that context's function-score sequence.
C8_NestedClassScoreAppended ==
    [][(ClosingClass /\ ExposedIsClass
            /\ StackPeek(stack).functions # <<>>)
        => stack'.inner[StackLen(stack) - 1].functions =
             Append(stack.inner[StackLen(stack) - 1].functions,
                    reduce_mul(StackPeek(stack).functions))]_vars

\* C8 amended: when a class closes directly under a class context, every
\* context under it, the enclosing class's sequence included, is left as it
\* was; the count and score printed for a class holding other classes are
\* those of its own functions alone.
C8_NestedClassScoreNotAppended ==
    /\ [][(ClosingClass /\ ExposedIsClass)
            => stack'.inner = SubSeq(stack.inner, 1, StackLen(stack) - 1)]_vars
    /\ [](\A j \in 1..Len(results) :
            (/\ results[j].kind = "class"
             /\ \E b \in Nodes : kind[b] = "ClassDef"
                    /\ NearestScope(b) = results[j].name)
            => LET fs == DirectFuncs(results[j].name)
               IN /\ results[j].count = Len(fs)
                  /\ ScoreEq(results[j].score,
                        Product([k \in 1..Len(fs) |-> ScoreOf(fs[k])])))

\* a class and, after it, the class directly around it have been printed
C8_Witness ==
    \E i, j \in 1..Len(results) :
        /\ i < j
        /\ results[i].kind = "class" /\ results[j].kind = "class"
        /\ NearestScope(results[i].name) = results[j].name
        /\ parent[results[i].name] = results[j].name

\* the positions of the function results whose nearest enclosing node of a
\* kind in K is c, in printing order
FuncResultsUnder(c, K) ==
    SetToSeq({i \in 1..Len(results) :
        /\ results[i].kind = "function"
        /\ Nearest(results[i].name, K) = c})

\* C9 as stated: every open class context holds one score for each finished
\* function whose nearest enclosing class it is, functions nested in other
\* functions included.
C9_ScoreGoesToNearestClass ==
    \A k \in 1..Len(OpenScopes) :
        (k <= StackLen(stack) /\ kind[OpenScopes[k]] = "ClassDef") =>
            Len(stack.inner[k].functions) =
                Len(FuncResultsUnder(OpenScopes[k], {"ClassDef"}))

\* C9 amended: every open class context holds, in finishing order, the
\* scores of exactly the finished functions whose nearest enclosing scope,
\* class or function, is that class; the score of a function nested in
\* another function is in no sequence.
C9_ScoreGoesToEnclosingScopeClass ==
    \A k \in 1..Len(OpenScopes) :
        (k <= StackLen(stack) /\ kind[OpenScopes[k]] = "ClassDef") =>
            LET idx == FuncResultsUnder(OpenScopes[k], ScopeKinds)
            IN stack.inner[k].functions =
                [m \in 1..Len(idx) |-> results[idx[m]].score]

\* class C is open, f in C and g in f have finished, C holds one score
C9_Witness ==
    \E k \in 1..Len(OpenScopes) :
        /\ k <= StackLen(stack)
        /\ kind[OpenScopes[k]] = "ClassDef"
        /\ Len(stack.inner[k].functions) = 1
        /\ \E i, j \in 1..Len(results) :
            /\ results[i].kind = "function" /\ results[j].kind = "function"
            /\ NearestScope(results[i].name) = results[j].name
            /\ NearestScope(results[j].name) = OpenScopes[k]

\* C10: no node is visited twice and no scope printed twice; when the
\* traversal is done every node has been visited once, every function and
\* class definition has exactly one result of its kind, and there are as
\* many results as function and class definitions.
C10_EveryNodeOnceOneResultPerScope ==
    /\ \A n \in Nodes : visits[n] <= 1
    /\ \A i \in 1..Len(results) :
        /\ results[i].name \in ScopeNodes
        /\ Cardinality(Reports(results[i].name)) = 1
        /\ results[i].kind =
            (IF kind[results[i].name] = "ClassDef" THEN "class"
             ELSE "function")
    /\ status = "done" =>
        /\ \A n \in Nodes : visits[n] = 1
        /\ \A n \in ScopeNodes : Cardinality(Reports(n)) = 1
        /\ Len(results) = Cardinality(ScopeNodes)

\* finished a tree with a class, two functions, a call and a plain node
C10_Witness ==
    /\ status = "done"
    /\ Len(results) = 3
    /\ \E c \in Nodes : kind[c] = "ClassDef"
    /\ \E c \in Nodes : kind[c] = "Call"
    /\ \A n \in Nodes : visits[n] = 1


\* C11: analysis is all-or-nothing: a traversal that ended with an
\* exception has printed no result.
C11_AllOrNothing ==
    status = "error" => results = <<>>

\* the scope definitions among node n and its ancestors, outermost first
ScopesAround(n) == SetToSeq({a \in AncSelf(parent, n) : IsScope(a)})

ContextType(n) == IF kind[n] = "ClassDef" THEN "class" ELSE "func"

\* C14: while the traversal runs, the stack holds one context for each
\* class or function definition among the visited node and its ancestors,
\* outermost first, each of the type of its node, and nothing else.
C14_StackMirrorsOpenScopes ==
    status = "running" =>
        LET sc == ScopesAround(Top.node)
        IN /\ StackLen(stack) = Len(sc)
           /\ \A k \in 1..Len(sc) : stack.inner[k].type = ContextType(sc[k])
           /\ \A k \in 1..Len(sc) : visits[sc[k]] = 1

\* inside a function in a class, after an earlier class has been closed
C14_Witness ==
    /\ status = "running"
    /\ StackLen(stack) = 2
    /\ stack.inner[1].type = "class" /\ stack.inner[2].type = "func"
    /\ \E i \in 1..Len(results) :
        results[i].kind = "class" /\ results[i].name \notin Anc(Top.node)

\* the next step closes a class or function definition
Closing == AtEnd /\ kind[Top.node] \in ScopeKinds

\* the next step opens a class or function definition
Opening == HasNext /\ kind[NextChild] \in ScopeKinds

\* C15: the stack is empty before the traversal and again once it is done;
\* every opening pushes one context, every closing pops one context, of
\* the type of the node that closes, from a stack that is not empty; a
\* finished traversal has closed every scope it opened, and no pop ever
\* raises IndexError.
C15_StackLifecycle ==
    /\ [](status = "ready" => stack = EmptyStack)
    /\ [](status = "done" =>
            /\ stack = EmptyStack
            /\ Len(results) = Cardinality({n \in ScopeNodes : visits[n] = 1}))
    /\ [](err # "IndexError")
    /\ [][Opening => StackLen(stack') = StackLen(stack) + 1]_vars
    /\ [][Closing =>
            /\ StackLen(stack) >= 1
            /\ StackPeek(stack).type = ContextType(Top.node)
            /\ StackLen(stack') = StackLen(stack) - 1]_vars

\* done, stack empty, after three scopes were opened and closed
C15_Witness ==
    /\ status = "done"
    /\ stack = EmptyStack
    /\ Len(results) = 3

\* the next step visits a node that is no class, function or call
VisitingOther == HasNext /\ kind[NextChild] = "Other"

\* C16: visiting a node that is no class, function or call leaves the
\* stack as it is, and so does the return from it or from a call; visiting
\* a call keeps the number of contexts and every context but the top one,
\* and adds exactly 1 to the counter of a function context on top.
C16_FrameOfCallAndOther ==
    /\ [][(VisitingOther \/ (AtEnd /\ kind[Top.node] \in {"Call", "Other"}))
            => stack' = stack]_vars
    /\ [][VisitingCall =>
            /\ StackLen(stack') = StackLen(stack)
            /\ stack'.depth = stack.depth
            /\ \A k \in 1..(StackLen(stack) - 1) :
                    stack'.inner[k] = stack.inner[k]
            /\ (StackLen(stack) # 0 /\ StackPeek(stack).type = "func") =>
                    /\ StackPeek(stack').type = "func"
                    /\ StackPeek(stack').calls = StackPeek(stack).calls + 1
                    /\ status' = "running"]_vars

\* a second call was counted in a function nested in another scope
C16_Witness ==
    /\ status = "running"
    /\ StackLen(stack) = 2
    /\ StackPeek(stack).type = "func"
    /\ StackPeek(stack).calls = 2

Next ==
    \/ main
    \/ visit_ClassDef_push
    \/ visit_ClassDef_pop
    \/ visit_FunctionDef_push
    \/ visit_FunctionDef_pop
    \/ visit_Call
    \/ generic_visit
    \/ generic_visit_return

Spec == Init /\ [][Next]_vars

\* ------------------------------------------------- a second traversal
\* analyzer.visit(tree) called once more on the same Analyzer after the
\* first call returned: the stack is whatever the first traversal left,
\* the output goes on after the first traversal's output.
visit_again ==
    /\ status = "done"
    /\ visits[1] = 1
    /\ frames' = <<[node |-> 1, i |-> 1]>>
    /\ visits' = [visits EXCEPT ![1] = @ + 1]
    /\ status' = "running"
    /\ UNCHANGED <<parent, kind, stack, results, err>>

NextTwice == Next \/ visit_again

SpecTwice == Init /\ [][NextTwice]_vars

\* C12: a second traversal of the same tree with the same Analyzer ends
\* without an exception and prints the results of the first traversal
\* again, in the same order: nothing is carried over.
C12_SecondRunIdentical ==
    visits[1] = 2 =>
        LET h == Cardinality(ScopeNodes)
            first == SubSeq(results, 1, h)
            second == SubSeq(results, h + 1, Len(results))
        IN /\ status # "error"
           /\ Len(results) >= h
           /\ Len(second) <= h
           /\ second = SubSeq(first, 1, Len(second))
           /\ status = "done" => second = first

\* the second traversal is done and printed a class and its functions
C12_Witness ==
    /\ visits[1] = 2
    /\ status = "done"
    /\ Len(results) = 6
    /\ \E i \in 4..6 : results[i].kind = "class"
    /\ \E i \in 4..6 : results[i].kind = "function" /\ results[i].count >= 1

\* ------------------------------------------------------------ termination
\* The trees of the termination check: every tree of up to MaxLiveNodes
\* nodes and the wide family.
InitLive ==
    /\ \/ \E n \in 1..MaxLiveNodes :
            \E p \in ParentSeqs(n), k \in KindSeqs(n) :
                parent = p /\ kind = k
       \/ \E c \in 0..MaxWideCalls :
            \/ parent = WideFlatParent(c) /\ kind = WideFlatKind(c)
            \/ parent = WideDeepParent(c) /\ kind = WideDeepKind(c)
    /\ stack = EmptyStack
    /\ frames = <<>>
    /\ results = <<>>
    /\ visits = [i \in 1..Len(parent) |-> 0]
    /\ status = "ready"
    /\ err = ""

\* The program is one synchronous thread: whenever a step is possible the
\* interpreter takes it.
SpecLive == InitLive /\ [][Next]_vars /\ WF_vars(Next)

\* C13: whatever tree the traversal is given, it finishes, normally or
\* with an exception.
C13_Terminates == <>(status \in {"done", "error"})

\* done on a tree with a call nested in a function nested in a class
C13_Witness ==
    /\ status = "done"
    /\ parent = <<0, 1, 2, 3>>
    /\ kind = <<"Other", "ClassDef", "FunctionDef", "Call">>
    /\ \A n \in Nodes : visits[n] = 1

\* ------------------------------------------------------- the Stack alone
\* The Stack driven by arbitrary pushes, pops and peeks.  Here frames is
\* the list of the elements pushed and not yet popped, oldest first;
\* status is the last operation, err the exception it raised ("" for
\* none) and results the one value it returned.
StackElems == {ClassContext, FuncContext, [type |-> "func", calls |-> 1]}

InitStack ==
    /\ parent = <<0>>
    /\ kind = <<"Other">>
    /\ visits = <<0>>
    /\ stack = EmptyStack
    /\ frames = <<>>
    /\ results = <<>>
    /\ status = "new"
    /\ err = ""

Stack_push ==
    /\ StackLen(stack) < MaxStackDepth
    /\ \E e \in StackElems :
        /\ stack' = StackPush(stack, e)
        /\ frames' = Append(frames, e)
    /\ results' = <<>>
    /\ status' = "push"
    /\ err' = ""
    /\ UNCHANGED <<parent, kind, visits>>

Stack_pop ==
    /\ IF ~PyInRange(stack.inner, stack.depth)
       THEN /\ err' = "IndexError"
            /\ results' = <<>>
            /\ UNCHANGED <<stack, frames>>
       ELSE /\ results' = <<StackPeek(stack)>>
            /\ stack' = StackPop(stack)
            /\ frames' = SubSeq(frames, 1, Len(frames) - 1)
            /\ err' = ""
    /\ status' = "pop"
    /\ UNCHANGED <<parent, kind, visits>>

Stack_peek ==
    /\ IF ~PyInRange(stack.inner, stack.depth)
       THEN /\ err' = "IndexError"
            /\ results' = <<>>
       ELSE /\ results' = <<StackPeek(stack)>>
            /\ err' = ""
    /\ status' = "peek"
    /\ UNCHANGED <<parent, kind, visits, stack, frames>>

NextStack == Stack_push \/ Stack_pop \/ Stack_peek

SpecStack == InitStack /\ [][NextStack]_vars

\* C18: after any pushes and pops the depth index is the number of stored
\* elements minus one; the stored elements are the ones pushed and not yet
\* popped, oldest first; pop and peek return the newest of them, pop
\* removes it and peek removes nothing; on an empty Stack both raise and
\* leave elements and depth index as they were.
C18_StackLIFO ==
    /\ [](stack.depth = Len(stack.inner) - 1)
    /\ [](stack.inner = frames)
    /\ [](StackLen(stack) = Len(frames))
    /\ [][status' \in {"pop", "peek"} =>
            IF frames = <<>>
            THEN /\ err' = "IndexError"
                 /\ stack' = stack
            ELSE /\ err' = ""
                 /\ results' = <<frames[Len(frames)]>>
                 /\ stack'.inner =
                        IF status' = "pop"
                        THEN SubSeq(stack.inner, 1, Len(stack.inner) - 1)
                        ELSE stack.inner]_vars

\* a function context pushed last was popped first from three elements
C18_Witness ==
    /\ status = "pop"
    /\ err = ""
    /\ results = <<FuncContext>>
    /\ stack = [inner |-> <<FuncContext, ClassContext>>, depth |-> 1]

====
